---------------------------- MODULE Spec2Model ----------------------------
(***************************************************************************)
(* Model of streamlit_app.py: the source resolution chain                  *)
(* (fetch_seoul_geojson, fetch_closed_schools,                             *)
(* fetch_population_components), the data source banner, the temporal      *)
(* filter (remove_future_rows), the schema normalisation                   *)
(* (compute_extinction_index, build_closed_agg) and the smoothing step.    *)
(*                                                                         *)
(* Text.  A Python string is a sequence of one-character tokens.  A Latin  *)
(* or ASCII character is itself ("d", ".", "("); a Hangul syllable is      *)
(* written "#" followed by its romanisation ("#ye" "#si" is the word the   *)
(* banner looks for), because the module's strings are ASCII.  Substring   *)
(* tests ("x" in s, str.contains), lower() and endswith() are computed on  *)
(* these sequences.                                                        *)
(*                                                                         *)
(* Time.  An instant is a number of hours since the model's epoch, UTC.    *)
(* The calendar is shortened: a year has DaysPerYear days of 24 hours.     *)
(* Asia/Seoul is UTC+9 with no daylight saving.                            *)
(*                                                                         *)
(* Numbers.  A float is [k, p, q]: k = "num" is the rational p/q (q > 0),  *)
(* k = "nan", "inf", "-inf" are the IEEE values.  Rounding of binary       *)
(* floating point is not modelled.                                         *)
(***************************************************************************)
EXTENDS Integers, Sequences, FiniteSets, TLC

VARIABLES
    pc,             \* position of the script run
    env,            \* os.environ: the four URL variables
    now,            \* wall clock, hours since the epoch (UTC)
    TODAY,          \* Seoul day number captured when the module was loaded
    calls,          \* network/file reads made so far: <<[src, ok]>>
    raised,         \* the exception that left a handler uncaught, or "none"
    geojson, geo_source,
    closed_df_raw, closed_source,
    pop_df_raw, pop_source,
    warning,        \* st.warning of the data source banner was shown
    date_df, filtered,        \* a direct call of remove_future_rows: input, output
    filtered_day,             \* the Seoul day on which that call was made, -1 before
    smooth_win, unit_choice,  \* sidebar widgets
    ext_long, ext_day,        \* compute_extinction_index's records, the day of the call
    ext_smooth,               \* ext_long after the unit and smoothing steps
    closed_long, closed_day   \* build_closed_agg's records, the day of the call

\* what the loads write, and what the pipeline writes
loaded == <<calls, geojson, geo_source, closed_df_raw, closed_source,
            pop_df_raw, pop_source, warning>>
derived == <<date_df, filtered, filtered_day, smooth_win, unit_choice,
             ext_long, ext_day, ext_smooth, closed_long, closed_day>>

vars == <<pc, env, now, TODAY, raised, loaded, derived>>

-----------------------------------------------------------------------------
(* Strings as token sequences *)

\* str.lower() on one character: Hangul and punctuation are unchanged
LowerChar(c) ==
    CASE c = "C" -> "c" [] c = "S" -> "s" [] c = "V" -> "v"
      [] c = "Y" -> "y" [] c = "E" -> "e" [] c = "A" -> "a" [] c = "R" -> "r"
      [] c = "D" -> "d" [] c = "G" -> "g" [] c = "I" -> "i" [] c = "T" -> "t"
      [] c = "K" -> "k" [] c = "H" -> "h" [] c = "U" -> "u"
      [] OTHER -> c

Lower(s) == [i \in 1..Len(s) |-> LowerChar(s[i])]

\* Python's `sub in s`
Contains(sub, s) ==
    \E i \in 0..(Len(s) - Len(sub)) :
        \A j \in 1..Len(sub) : s[i + j] = sub[j]

EndsWith(s, suf) ==
    /\ Len(s) >= Len(suf)
    /\ \A j \in 1..Len(suf) : s[Len(s) - Len(suf) + j] = suf[j]

\* words the code searches for
W_YEONDO == <<"#yeon", "#do">>
W_NYEONDO == <<"#nyeon", "#do">>
W_JACHIGU == <<"#ja", "#chi", "#gu">>
W_GU == <<"#gu">>
W_SEOUL == <<"#seo", "#ul">>
W_YESI == <<"#ye", "#si">>
W_YEOSEONG == <<"#yeo", "#seong">>
W_ISANG == <<"#i", "#sang">>

\* column names of the built-in example tables
C_YEONDO == W_YEONDO
C_JACHIGU == W_JACHIGU
C_F2039 == <<"#yeo", "#seong", "2", "0", "_", "3", "9">>
C_65 == <<"#go", "#ryeong", "6", "5", "_", "#i", "#sang">>
C_TOTAL == <<"#chong", "#in", "#gu">>
C_SCHOOL == <<"#hak", "#gyo", "#myeong">>
C_CLOSEDYEAR == <<"#pye", "#gyo", "#yeon", "#do">>

\* provenance labels
L_DATA_GO == <<"d", "a", "t", "a", ".", "g", "o", ".", "k", "r", "(", "#gong", "#sik", ")">>
L_KEIS == <<"K", "E", "I", "S", "/", "#gyo", "#yuk", "#bu", "(", "#gong", "#sik", ")">>
L_GITHUB == <<"#dae", "#che", "(", "#bi", "#gong", "#sik", ")", " ", "G", "i", "t", "H", "u", "b">>
L_EXAMPLE == <<"#nae", "#jang", " ", "#ye", "#si">>
L_PLACEHOLDER == <<"#nae", "#jang", " ", "#ye", "#si", "(", "#gyeong", "#gye", " ", "#eops", "#eum", ")">>
NoLabel == << >>

-----------------------------------------------------------------------------
(* Tables: a DataFrame is [cols, rows]; a row is a sequence of cells in    *)
(* column order; a cell is an integer, a string or a missing value.        *)

IntCell(n) == [k |-> "int", n |-> n, s |-> << >>]
StrCell(s) == [k |-> "str", n |-> 0, s |-> s]
NA == [k |-> "na", n |-> 0, s |-> << >>]

DataFrame(cols, rows) == [cols |-> cols, rows |-> rows]
EmptyFrame == DataFrame(<< >>, << >>)

\* position of a column name in df.columns, 0 when absent
ColIndex(df, name) ==
    IF \E i \in 1..Len(df.cols) : df.cols[i] = name
    THEN CHOOSE i \in 1..Len(df.cols) :
             /\ df.cols[i] = name
             /\ \A j \in 1..(i - 1) : df.cols[j] # name
    ELSE 0

HasCol(df, name) == ColIndex(df, name) # 0

\* next((c for c in df.columns if P(c)), None): 0 stands for None
FirstCol(df, P(_)) ==
    IF \E i \in 1..Len(df.cols) : P(df.cols[i])
    THEN CHOOSE i \in 1..Len(df.cols) :
             /\ P(df.cols[i])
             /\ \A j \in 1..(i - 1) : ~P(df.cols[j])
    ELSE 0

\* df[mask]: the rows that satisfy Keep, in order
FilterRows(df, Keep(_)) == DataFrame(df.cols, SelectSeq(df.rows, Keep))

-----------------------------------------------------------------------------
(* The network.  A response is what one read of a URL would give: the      *)
(* transport result, the HTTP status and the body.                         *)

\* exception classes the reads can raise
RequestErrors == {"ConnectionError", "Timeout"}
ExceptionClasses ==
    RequestErrors \cup {"HTTPError", "JSONDecodeError", "AttributeError",
                        "EmptyDataError", "KeyError", "ValueError"}

\* a response body: JSON object (with a "data" or "items" key, or neither),
\* JSON array, text that is no JSON, CSV text, or nothing at all
Body(kind, key, table, features) ==
    [kind |-> kind, key |-> key, table |-> table, features |-> features]
EmptyBody == Body("empty", "none", EmptyFrame, << >>)

Ok(v) == [exc |-> "none", val |-> v]
Raise(e) == [exc |-> e, val |-> EmptyBody]

\* a handler `except requests.RequestException:` would catch only these
ExceptRequestsOnly(e) == e \in RequestErrors \cup {"HTTPError"}
\* `except Exception:` catches every exception class above
ExceptException(e) == e \in ExceptionClasses

\* requests.get(url, timeout=...) followed by r.raise_for_status()
requests_get(resp) ==
    IF resp.net # "ok" THEN Raise(resp.net)
    ELSE IF resp.status >= 400 THEN Raise("HTTPError")
    ELSE Ok(resp.body)

\* gj = r.json()
response_json(resp) ==
    LET r == requests_get(resp)
    IN IF r.exc # "none" THEN r
       ELSE IF resp.body.kind \in {"object", "array"} THEN Ok(resp.body)
       ELSE Raise("JSONDecodeError")

\* js = r.json(); rows = js.get("data", js.get("items", [])); json_normalize
json_rows(resp) ==
    LET r == response_json(resp)
    IN IF r.exc # "none" THEN r
       ELSE IF resp.body.kind = "array" THEN Raise("AttributeError")
       ELSE IF resp.body.key \in {"data", "items"} THEN Ok(resp.body.table)
       ELSE Ok(EmptyFrame)

\* pd.read_csv(url) and pd.read_csv(io.StringIO(r.text))
read_csv(resp) ==
    LET r == requests_get(resp)
    IN IF r.exc # "none" THEN r
       ELSE IF resp.body.kind = "empty" THEN Raise("EmptyDataError")
       ELSE Ok(resp.body.table)

IsCsvUrl(url) == EndsWith(Lower(url), <<".", "c", "s", "v">>)

\* the Seoul filter on the first column whose name mentions the province
IsSidoCol(c) ==
    \/ Contains(<<"#si", "#do">>, c)
    \/ Contains(<<"#gwang", "#yeok">>, c)
    \/ Contains(<<"#si", "#do", "#myeong">>, c)

\* df[col].astype(str).str.contains("\uc11c\uc6b8")
CellMentionsSeoul(cell) == cell.k = "str" /\ Contains(W_SEOUL, cell.s)

seoul_filter(df) ==
    LET col == FirstCol(df, IsSidoCol)
        Keep(row) == CellMentionsSeoul(row[col])
    IN IF col # 0 THEN FilterRows(df, Keep) ELSE df

-----------------------------------------------------------------------------
(* Time *)

SeoulOffset == 9
HoursPerDay == 24
DaysPerYear == 2
EpochYear == 2024
MaxDay == 3

\* datetime.now(TZ): the Seoul wall clock of instant t, in hours
SeoulWall(t) == t + SeoulOffset
\* .date() of a Seoul wall clock, as a day number
SeoulDate(t) == SeoulWall(t) \div HoursPerDay
\* .year of a day number
YearOf(day) == EpochYear + (day \div DaysPerYear)
\* the instant of <year>-01-01 00:00 Asia/Seoul
YearStart(y) == ((y - EpochYear) * DaysPerYear * HoursPerDay) - SeoulOffset

-----------------------------------------------------------------------------
(* Source resolution *)

Call(src, ok) == [src |-> src, ok |-> ok]
Fetched(val, label, made, exc) ==
    [val |-> val, label |-> label, calls |-> made, raised |-> exc]

PlaceholderGeojson == Body("object", "none", EmptyFrame, << >>)

\* fetch_seoul_geojson: the configured URL, the GitHub copy, the placeholder
fetch_seoul_geojson(url, resp1, resp2) ==
    LET a1 == response_json(resp1)
        a2 == response_json(resp2)
        first == IF url # << >> THEN <<Call("SEOUL_GEOJSON_URL", a1.exc = "none")>>
                 ELSE << >>
        second == first \o <<Call("GitHub", a2.exc = "none")>>
    IN IF url # << >> /\ a1.exc = "none"
       THEN Fetched(a1.val, L_DATA_GO, first, "none")
       ELSE IF url # << >> /\ ~ExceptException(a1.exc)
       THEN Fetched(EmptyBody, NoLabel, first, a1.exc)
       ELSE IF a2.exc = "none"
       THEN Fetched(a2.val, L_GITHUB, second, "none")
       ELSE IF ExceptException(a2.exc)
       THEN Fetched(PlaceholderGeojson, L_PLACEHOLDER, second, "none")
       ELSE Fetched(EmptyBody, NoLabel, second, a2.exc)

\* df.reset_index(drop=True): rows are numbered by position already
reset_index(df) == df

\* the body of one try block of fetch_closed_schools, after `if url:`
closed_attempt(url, resp, is_api_json) ==
    LET got == IF IsCsvUrl(url) THEN read_csv(resp)
               ELSE IF is_api_json THEN json_rows(resp)
               ELSE read_csv(resp)
    IN IF got.exc # "none" THEN got
       ELSE Ok(reset_index(seoul_filter(got.val)))

District(a, b) == StrCell(<<a, b, "#gu">>)
District3(a, b, c) == StrCell(<<a, b, c, "#gu">>)

\* the built-in list of closed schools; coordinates in thousandths of a degree
ExampleClosed ==
    DataFrame(<<C_SCHOOL, C_CLOSEDYEAR, <<"#wi", "#do">>, <<"#gyeong", "#do">>, C_JACHIGU>>,
      << <<StrCell(<<"#gu", "#ui", "#cho">>), IntCell(2002), IntCell(37537), IntCell(127091),
           District("#gwang", "#jin")>>,
         <<StrCell(<<"#seo", "#cho", "#jung">>), IntCell(2005), IntCell(37476), IntCell(127014),
           District("#seo", "#cho")>>,
         <<StrCell(<<"#go", "#cheok", "#go">>), IntCell(2011), IntCell(37506), IntCell(126861),
           District("#gu", "#ro")>>,
         <<StrCell(<<"#hong", "#je", "#cho">>), IntCell(2008), IntCell(37590), IntCell(126945),
           District3("#seo", "#dae", "#mun")>>,
         <<StrCell(<<"#han", "#gang", "#cho">>), IntCell(2015), IntCell(37528), IntCell(126932),
           District3("#yeong", "#deung", "#po")>>,
         <<StrCell(<<"#jam", "#sin", "#cho">>), IntCell(2016), IntCell(37513), IntCell(127095),
           District("#song", "#pa")>> >>)

\* fetch_closed_schools with the first `return` lost: KEIS is still read after
\* data.go.kr answered, and its answer replaces the first one
fetch_closed_schools_no_return(endpoint, keis_url, resp1, resp2) ==
    LET a1 == closed_attempt(endpoint, resp1, TRUE)
        a2 == closed_attempt(keis_url, resp2, FALSE)
        first == IF endpoint # << >>
                 THEN <<Call("DATA_GO_CLOSED_SCHOOL_URL", a1.exc = "none")>>
                 ELSE << >>
        second == IF keis_url # << >>
                  THEN first \o <<Call("KEIS_CLOSED_SCHOOL_URL", a2.exc = "none")>>
                  ELSE first
    IN IF keis_url # << >> /\ a2.exc = "none"
       THEN Fetched(a2.val, L_KEIS, second, "none")
       ELSE IF endpoint # << >> /\ a1.exc = "none"
       THEN Fetched(a1.val, L_DATA_GO, second, "none")
       ELSE Fetched(ExampleClosed, L_EXAMPLE, second, "none")

\* fetch_closed_schools: data.go.kr, KEIS, the built-in example
fetch_closed_schools(endpoint, keis_url, resp1, resp2) ==
    LET a1 == closed_attempt(endpoint, resp1, TRUE)
        a2 == closed_attempt(keis_url, resp2, FALSE)
        first == IF endpoint # << >>
                 THEN <<Call("DATA_GO_CLOSED_SCHOOL_URL", a1.exc = "none")>>
                 ELSE << >>
        second == IF keis_url # << >>
                  THEN first \o <<Call("KEIS_CLOSED_SCHOOL_URL", a2.exc = "none")>>
                  ELSE first
    IN IF endpoint # << >> /\ a1.exc = "none"
       THEN Fetched(a1.val, L_DATA_GO, first, "none")
       ELSE IF endpoint # << >> /\ ~ExceptException(a1.exc)
       THEN Fetched(EmptyFrame, NoLabel, first, a1.exc)
       ELSE IF keis_url # << >> /\ a2.exc = "none"
       THEN Fetched(a2.val, L_KEIS, second, "none")
       ELSE IF keis_url # << >> /\ ~ExceptException(a2.exc)
       THEN Fetched(EmptyFrame, NoLabel, second, a2.exc)
       ELSE Fetched(ExampleClosed, L_EXAMPLE, second, "none")

\* the 25 districts of the synthetic generator
gus ==
    << <<"#jong", "#ro", "#gu">>, <<"#jung", "#gu">>, <<"#yong", "#san", "#gu">>,
       <<"#seong", "#dong", "#gu">>, <<"#gwang", "#jin", "#gu">>,
       <<"#dong", "#dae", "#mun", "#gu">>, <<"#jung", "#rang", "#gu">>,
       <<"#seong", "#buk", "#gu">>, <<"#gang", "#buk", "#gu">>, <<"#do", "#bong", "#gu">>,
       <<"#no", "#won", "#gu">>, <<"#eun", "#pyeong", "#gu">>,
       <<"#seo", "#dae", "#mun", "#gu">>, <<"#ma", "#po", "#gu">>,
       <<"#yang", "#cheon", "#gu">>, <<"#gang", "#seo", "#gu">>, <<"#gu", "#ro", "#gu">>,
       <<"#geum", "#cheon", "#gu">>, <<"#yeong", "#deung", "#po", "#gu">>,
       <<"#dong", "#jak", "#gu">>, <<"#gwan", "#ak", "#gu">>, <<"#seo", "#cho", "#gu">>,
       <<"#gang", "#nam", "#gu">>, <<"#song", "#pa", "#gu">>, <<"#gang", "#dong", "#gu">> >>

SyntheticFirstYear == 2010

\* rng.integers(lo, hi) of the generator seeded with 42: the k-th draw is some
\* fixed value in lo..hi-1; the model takes a fixed stand-in for it
rng_integers(lo, hi, k) == lo + ((k * 7919) % (hi - lo))

synthetic_population(today) ==
    LET n_years == YearOf(today) + 1 - SyntheticFirstYear
        n == Len(gus)
        record(i) ==
            LET y == SyntheticFirstYear + ((i - 1) \div n)
                g == gus[((i - 1) % n) + 1]
            IN <<IntCell(y), StrCell(g),
                 IntCell(rng_integers(8000, 45000, 3 * i - 2)),
                 IntCell(rng_integers(6000, 80000, 3 * i - 1)),
                 IntCell(rng_integers(150000, 600000, 3 * i))>>
    IN DataFrame(<<C_YEONDO, C_JACHIGU, C_F2039, C_65, C_TOTAL>>,
                 [i \in 1..(n_years * n) |-> record(i)])

\* fetch_population_components: (KOSIS: not implemented), data.go.kr, synthetic
fetch_population_components(pop_url, resp, today) ==
    LET a1 == IF IsCsvUrl(pop_url) THEN read_csv(resp) ELSE json_rows(resp)
        first == IF pop_url # << >> THEN <<Call("DATA_GO_POP_URL", a1.exc = "none")>>
                 ELSE << >>
    IN IF pop_url # << >> /\ a1.exc = "none"
       THEN Fetched(a1.val, L_DATA_GO, first, "none")
       ELSE IF pop_url # << >> /\ ~ExceptException(a1.exc)
       THEN Fetched(EmptyFrame, NoLabel, first, a1.exc)
       ELSE Fetched(synthetic_population(today), L_EXAMPLE, first, "none")

\* the data source banner: "<example>" in (geo_source + closed_source + pop_source)
banner_shown(geo, closed, pop) == Contains(W_YESI, geo \o closed \o pop)

-----------------------------------------------------------------------------
(* Floats *)

NaN == [k |-> "nan", p |-> 0, q |-> 1]
Inf == [k |-> "inf", p |-> 0, q |-> 1]
NegInf == [k |-> "-inf", p |-> 0, q |-> 1]

Abs(x) == IF x < 0 THEN -x ELSE x

RECURSIVE Gcd(_, _)
Gcd(a, b) == IF b = 0 THEN a ELSE Gcd(b, a % b)

\* the rational p/q (q # 0) in lowest terms with a positive denominator
Num(p, q) ==
    LET g == Gcd(Abs(p), Abs(q))
        sgn == IF q < 0 THEN -1 ELSE 1
    IN [k |-> "num", p |-> (sgn * p) \div g, q |-> (sgn * q) \div g]

IsNum(x) == x.k = "num"

\* pd.isna on a float
IsNaN(x) == x.k = "nan"

\* Series / Series on float64: x/0 is +-inf, 0/0 is NaN, nothing raises
float_div(a, b) ==
    IF IsNaN(a) \/ IsNaN(b) THEN NaN
    ELSE IF ~IsNum(a) \/ ~IsNum(b) THEN NaN
    ELSE IF b.p = 0
         THEN (IF a.p > 0 THEN Inf ELSE IF a.p < 0 THEN NegInf ELSE NaN)
    ELSE Num(a.p * b.q, a.q * b.p)

\* x * c and x / c for a finite non-zero constant c
float_scale(x, num, den) == IF IsNum(x) THEN Num(x.p * num, x.q * den) ELSE x

float_add(a, b) ==
    IF IsNum(a) /\ IsNum(b) THEN Num(a.p * b.q + b.p * a.q, a.q * b.q) ELSE NaN

\* the ratio without the replacement: an infinity stays in the column
keep_infinities(x) == x
\* .replace([np.inf, -np.inf], np.nan)
replace_inf(x) == IF x.k \in {"inf", "-inf"} THEN NaN ELSE x

\* pd.to_numeric(cell, errors="coerce")
to_numeric(cell) == IF cell.k = "int" THEN Num(cell.n, 1) ELSE NaN

\* .astype(int) on one cell: an unparsable or missing value raises
CanCastInt(cell) == cell.k = "int"

-----------------------------------------------------------------------------
(* Timestamps and canonical records *)

\* a timestamp: wall clock hours in its own zone; aware ones carry the
\* zone's offset from UTC; NaT is the missing timestamp
Timestamp(wall, aware, off) == [nat |-> FALSE, wall |-> wall, aware |-> aware, off |-> off]
NaT == [nat |-> TRUE, wall |-> 0, aware |-> FALSE, off |-> 0]

\* the UTC instant of an aware timestamp
Instant(ts) == ts.wall - ts.off

\* s.dt.tz_localize(TZ): the same wall clock, now in Asia/Seoul
tz_localize(ts) == IF ts.nat THEN ts ELSE Timestamp(ts.wall, TRUE, SeoulOffset)

\* s.dt.tz_convert(TZ): the same instant, on the Asia/Seoul wall clock
tz_convert(ts) ==
    IF ts.nat THEN ts ELSE Timestamp(ts.wall - ts.off + SeoulOffset, TRUE, SeoulOffset)

\* a cutoff taken from the module-level TODAY: 00:00 of the day of import
seoul_midnight_at_import(t) == Timestamp(TODAY * HoursPerDay, TRUE, SeoulOffset)
\* seoul_midnight_today(): 00:00 of the current Seoul day, at instant t
seoul_midnight_today(t) == Timestamp(SeoulDate(t) * HoursPerDay, TRUE, SeoulOffset)

\* a frame of records: cols is the set of column names, rows the records
Frame(cols, rows) == [cols |-> cols, rows |-> rows]

\* getattr(s.dt, "tz", None) is None: the column holds naive timestamps
IsNaiveColumn(rows, date_col) == \A i \in 1..Len(rows) : ~rows[i][date_col].aware

\* remove_future_rows(df, date_col), called at instant t
remove_future_rows(df, date_col, t) ==
    IF date_col \notin df.cols THEN df
    ELSE LET naive == IsNaiveColumn(df.rows, date_col)
             conv(r) == [r EXCEPT ![date_col] =
                            IF naive THEN tz_localize(r[date_col])
                            ELSE tz_convert(r[date_col])]
             s == [i \in 1..Len(df.rows) |-> conv(df.rows[i])]
             cutoff == seoul_midnight_today(t)
             Before(r) == ~r[date_col].nat /\ Instant(r[date_col]) < Instant(cutoff)
         IN Frame(df.cols, SelectSeq(s, Before))

-----------------------------------------------------------------------------
(* Ordering of records: sort_values(["group", "date"]) *)

\* district names in the order Python compares them (by code point)
DistrictOrder ==
    << <<"#gang", "#nam", "#gu">>, <<"#gang", "#dong", "#gu">>, <<"#gang", "#buk", "#gu">>,
       <<"#gang", "#seo", "#gu">>, <<"#gwan", "#ak", "#gu">>, <<"#gwang", "#jin", "#gu">>,
       <<"#gu", "#ro", "#gu">>, <<"#geum", "#cheon", "#gu">>, <<"#no", "#won", "#gu">>,
       <<"#do", "#bong", "#gu">>, <<"#dong", "#dae", "#mun", "#gu">>,
       <<"#dong", "#jak", "#gu">>, <<"#ma", "#po", "#gu">>,
       <<"#seo", "#dae", "#mun", "#gu">>, <<"#seo", "#cho", "#gu">>,
       <<"#seong", "#dong", "#gu">>, <<"#seong", "#buk", "#gu">>, <<"#song", "#pa", "#gu">>,
       <<"#yang", "#cheon", "#gu">>, <<"#yeong", "#deung", "#po", "#gu">>,
       <<"#yong", "#san", "#gu">>, <<"#eun", "#pyeong", "#gu">>, <<"#jong", "#ro", "#gu">>,
       <<"#jung", "#gu">>, <<"#jung", "#rang", "#gu">>, <<"#hae", "#un", "#dae", "#gu">> >>

GroupRank(g) ==
    IF \E i \in 1..Len(DistrictOrder) : DistrictOrder[i] = g
    THEN CHOOSE i \in 1..Len(DistrictOrder) : DistrictOrder[i] = g
    ELSE 0

\* a sorts strictly before b on (group, date)
RowBefore(a, b) ==
    \/ GroupRank(a.group) < GroupRank(b.group)
    \/ /\ GroupRank(a.group) = GroupRank(b.group)
       /\ Instant(a.date) < Instant(b.date)

\* x placed after every element that does not sort after it (a stable sort)
RECURSIVE InsertRow(_, _)
InsertRow(sorted, x) ==
    IF sorted = << >> THEN <<x>>
    ELSE IF RowBefore(x, Head(sorted)) THEN <<x>> \o sorted
    ELSE <<Head(sorted)>> \o InsertRow(Tail(sorted), x)

RECURSIVE sort_values(_)
sort_values(rows) ==
    IF rows = << >> THEN << >>
    ELSE InsertRow(sort_values(SubSeq(rows, 1, Len(rows) - 1)), rows[Len(rows)])

-----------------------------------------------------------------------------
(* Schema normalisation *)

IsYearCol(c) == Contains(W_YEONDO, c) \/ Lower(c) = <<"y", "e", "a", "r">>
IsGuCol(c) == Contains(W_JACHIGU, c) \/ c = W_GU \/ Contains(<<"d", "i", "s", "t", "r", "i", "c", "t">>, Lower(c))
IsF2039Col(c) ==
    \/ Contains(<<"#yeo", "#seong", "2", "0">>, c)
    \/ Contains(<<"2", "0", "_", "3", "9">>, c)
    \/ (Contains(W_YEOSEONG, c) /\ Contains(<<"2", "0">>, c))
Is65Col(c) ==
    \/ (Contains(<<"6", "5">>, c) /\ Contains(W_ISANG, c))
    \/ Contains(<<"a", "g", "e", "d">>, Lower(c))

\* pd.to_datetime("<year>-01-01"): a naive timestamp
to_datetime_year(y) == Timestamp((y - EpochYear) * DaysPerYear * HoursPerDay, FALSE, 0)

\* the tz branch after building the date column
localize_or_convert(ts) == IF ts.aware THEN tz_convert(ts) ELSE tz_localize(ts)

Computed(exc, out) == [exc |-> exc, out |-> out]
NoRecords == Frame({}, << >>)

\* compute_extinction_index(df_raw), called at instant t
compute_extinction_index(df_raw, t) ==
    LET found_y == FirstCol(df_raw, IsYearCol)
        found_gu == FirstCol(df_raw, IsGuCol)
        found_f == FirstCol(df_raw, IsF2039Col)
        found_65 == FirstCol(df_raw, Is65Col)
        all_found == found_y # 0 /\ found_gu # 0 /\ found_f # 0 /\ found_65 # 0
        col_y == IF all_found THEN found_y ELSE ColIndex(df_raw, C_YEONDO)
        col_gu == IF all_found THEN found_gu ELSE ColIndex(df_raw, C_JACHIGU)
        col_f == IF all_found THEN found_f ELSE ColIndex(df_raw, C_F2039)
        col_65 == IF all_found THEN found_65 ELSE ColIndex(df_raw, C_65)
        index(row) ==
            float_scale(replace_inf(float_div(to_numeric(row[col_f]), to_numeric(row[col_65]))),
                        100, 1)
        record(row) ==
            [date |-> localize_or_convert(to_datetime_year(row[col_y].n)),
             value |-> index(row),
             group |-> row[col_gu].s]
        complete(row) == ~IsNaN(index(row)) /\ row[col_gu].k # "na"
        kept == SelectSeq(df_raw.rows, complete)
        out == sort_values([i \in 1..Len(kept) |-> record(kept[i])])
        filtered_out == remove_future_rows(Frame({"date", "value", "group"}, out), "date", t)
        tagged(r) == [date |-> r.date, value |-> r.value, group |-> r.group,
                      metric |-> "ext_index"]
    IN IF col_y = 0 \/ col_gu = 0 \/ col_f = 0 \/ col_65 = 0
       THEN Computed("KeyError", NoRecords)
       ELSE IF \E i \in 1..Len(df_raw.rows) : ~CanCastInt(df_raw.rows[i][col_y])
       THEN Computed("ValueError", NoRecords)
       ELSE Computed("none",
                Frame({"date", "value", "group", "metric"},
                      [i \in 1..Len(filtered_out.rows) |-> tagged(filtered_out.rows[i])]))

\* rename(columns={old: new}) when old was found
rename_col(df, idx, name) ==
    IF idx = 0 THEN df
    ELSE DataFrame([i \in 1..Len(df.cols) |-> IF i = idx THEN name ELSE df.cols[i]], df.rows)

IsAnyGuCol(c) == Contains(W_GU, c)
IsAnyYearCol(c) == Contains(W_YEONDO, c) \/ Contains(W_NYEONDO, c)

\* pd.to_numeric(errors="coerce").astype("Int64") on one cell
to_Int64(cell) == IF cell.k = "int" THEN cell ELSE NA

\* the least record of a non-empty set whose (group, date) keys are distinct
LeastRow(S) == CHOOSE x \in S : \A y \in S : y = x \/ RowBefore(x, y)

RECURSIVE SortedRows(_)
SortedRows(S) ==
    IF S = {} THEN << >>
    ELSE <<LeastRow(S)>> \o SortedRows(S \ {LeastRow(S)})

Aggregated(exc, raw, agg) == [exc |-> exc, raw |-> raw, agg |-> agg]

\* a count of the distinct rows of a group, as after drop_duplicates()
groupby_nunique(kept, col_gu, col_y, key) ==
    Cardinality({kept[i] : i \in {j \in 1..Len(kept) :
                    kept[j][col_gu].s = key[1] /\ kept[j][col_y].n = key[2]}})
\* .groupby(["\uc790\uce58\uad6c","\ud3d0\uad50\uc5f0\ub3c4"]).size(): the rows of one group
groupby_size(kept, col_gu, col_y, key) ==
    Cardinality({i \in 1..Len(kept) :
                    kept[i][col_gu].s = key[1] /\ kept[i][col_y].n = key[2]})

\* build_closed_agg(df_raw), called at instant t
build_closed_agg(df_raw, t) ==
    LET df1 == IF HasCol(df_raw, C_JACHIGU) THEN df_raw
               ELSE rename_col(df_raw, FirstCol(df_raw, IsAnyGuCol), C_JACHIGU)
        df2 == IF HasCol(df1, C_CLOSEDYEAR) THEN df1
               ELSE rename_col(df1, FirstCol(df1, IsAnyYearCol), C_CLOSEDYEAR)
        col_gu == ColIndex(df2, C_JACHIGU)
        col_y == ColIndex(df2, C_CLOSEDYEAR)
        df == IF col_y = 0 THEN df2
              ELSE DataFrame(df2.cols,
                     [i \in 1..Len(df2.rows) |->
                        [j \in 1..Len(df2.cols) |->
                            IF j = col_y THEN to_Int64(df2.rows[i][j]) ELSE df2.rows[i][j]]])
        present(row) == row[col_gu].k # "na" /\ row[col_y].k # "na"
        kept == SelectSeq(df.rows, present)
        keys == {<<kept[i][col_gu].s, kept[i][col_y].n>> : i \in 1..Len(kept)}
        size(key) == groupby_size(kept, col_gu, col_y, key)
        agg == {[date |-> localize_or_convert(to_datetime_year(key[2])),
                 value |-> Num(size(key), 1),
                 group |-> key[1]] : key \in keys}
        filtered_agg == remove_future_rows(Frame({"date", "value", "group"}, SortedRows(agg)),
                                           "date", t)
    IN IF col_gu = 0 \/ col_y = 0
       THEN Aggregated("KeyError", df, NoRecords)
       ELSE Aggregated("none", df,
                Frame({"date", "value", "group"}, sort_values(filtered_agg.rows)))

-----------------------------------------------------------------------------
(* Smoothing *)

Max(a, b) == IF a > b THEN a ELSE b

RECURSIVE SumOver(_, _, _)
\* the sum of the finite values of series[lo..hi]
SumOver(series, lo, hi) ==
    IF lo > hi THEN Num(0, 1)
    ELSE IF IsNum(series[hi]) THEN float_add(SumOver(series, lo, hi - 1), series[hi])
    ELSE SumOver(series, lo, hi - 1)

\* series.rolling(window, min_periods).mean()
rolling_mean(series, window, min_periods) ==
    [i \in 1..Len(series) |->
        LET lo == Max(1, i - window + 1)
            n == Cardinality({j \in lo..i : IsNum(series[j])})
        IN IF n >= min_periods
           THEN float_scale(SumOver(series, lo, i), 1, n)
           ELSE NaN]

\* rolling(window).mean() with pandas' default min_periods, the window itself
moving_average_full_window(series, window) ==
    IF window <= 1 THEN series ELSE rolling_mean(series, window, window)
\* a window that counts the predecessors of a record and not the record, and
\* so never returns early: rolling(window + 1)
moving_average_window_plus_one(series, window) ==
    rolling_mean(series, window + 1, Max(1, window \div 2))
\* moving_average(series, window)
moving_average(series, window) ==
    IF window <= 1 THEN series
    ELSE rolling_mean(series, window, Max(1, window \div 2))

\* the unit and smoothing steps applied to ext_long
smooth_ext_long(ext, unit, win) ==
    LET scaled == IF unit = "ratio"
                  THEN [i \in 1..Len(ext.rows) |->
                          [ext.rows[i] EXCEPT !.value = float_scale(@, 1, 100)]]
                  ELSE ext.rows
        sorted == sort_values(scaled)
        of_group(g) == SelectSeq(sorted, LAMBDA r : r.group = g)
        values(g) == [i \in 1..Len(of_group(g)) |-> of_group(g)[i].value]
        pos(i) == Cardinality({j \in 1..i : sorted[j].group = sorted[i].group})
    IN IF win > 1
       THEN Frame(ext.cols,
              [i \in 1..Len(sorted) |->
                 [sorted[i] EXCEPT !.value =
                     moving_average(values(sorted[i].group), win)[pos(i)]]])
       ELSE Frame(ext.cols, scaled)

-----------------------------------------------------------------------------
(* What the environment can be: URL settings and what the servers answer *)

UrlUnset == << >>
UrlCsv == <<"u", ".", "c", "s", "v">>
UrlCsvUpper == <<"u", ".", "C", "S", "V">>
UrlApi == <<"u", "/", "a", "p", "i">>
Urls == {UrlUnset, UrlCsv, UrlApi}

C_SIDOMYEONG == <<"#si", "#do", "#myeong">>
SeoulCity == StrCell(<<"#seo", "#ul", "#teuk", "#byeol", "#si">>)
BusanCity == StrCell(<<"#bu", "#san", "#gwang", "#yeok", "#si">>)
Jongno == District("#jong", "#ro")
Haeundae == District3("#hae", "#un", "#dae")

ClosedCols == <<C_SIDOMYEONG, C_JACHIGU, C_CLOSEDYEAR>>
ClosedTables ==
    { DataFrame(ClosedCols, << <<BusanCity, Haeundae, IntCell(2003)>>,
                               <<SeoulCity, Jongno, IntCell(2007)>> >>),
      DataFrame(ClosedCols, << <<BusanCity, Haeundae, IntCell(2003)>> >>),
      DataFrame(ClosedCols, << >>),
      DataFrame(<<C_JACHIGU, C_CLOSEDYEAR>>, << <<Jongno, IntCell(2007)>> >>),
      DataFrame(<<C_SCHOOL>>, << <<StrCell(<<"#han", "#gang", "#cho">>)>> >>) }

PopCols == <<C_YEONDO, C_JACHIGU, C_F2039, C_65>>
PopTables ==
    { DataFrame(PopCols, << <<IntCell(EpochYear), Jongno, IntCell(10000), IntCell(20000)>> >>),
      DataFrame(PopCols, << >>),
      DataFrame(<<C_YEONDO, C_JACHIGU, C_F2039>>,
                << <<IntCell(EpochYear), Jongno, IntCell(10000)>> >>) }

Features == {<<Jongno.s>>}

Response(net, status, body) == [net |-> net, status |-> status, body |-> body]
NoResponse == Response("ConnectionError", 0, EmptyBody)

\* a success with one of the bodies, an error status, or no answer at all
Answers(bodies) ==
    {Response("ok", 200, b) : b \in bodies}
        \cup {Response("ok", st, EmptyBody) : st \in {404, 503}}
        \cup {Response(e, 0, EmptyBody) : e \in RequestErrors}

JsonBodies(tables) ==
    {Body("object", "data", t, << >>) : t \in tables}
        \cup {Body("object", "items", t, << >>) : t \in {u \in tables : u.rows = << >>}}
        \cup {Body("object", "none", EmptyFrame, << >>),
              Body("array", "none", EmptyFrame, << >>),
              Body("text", "none", EmptyFrame, << >>)}

CsvBodies(tables) ==
    {Body("csv", "none", t, << >>) : t \in tables} \cup {EmptyBody}

GeoBodies ==
    {Body("object", "none", EmptyFrame, f) : f \in Features}
        \cup {Body("array", "none", EmptyFrame, << >>),
              Body("text", "none", EmptyFrame, << >>)}

\* what a read of `url` can give; an unset URL is never read
ResponsesFor(url, json_api, tables) ==
    IF url = UrlUnset THEN {NoResponse}
    ELSE IF IsCsvUrl(url) \/ ~json_api THEN Answers(CsvBodies(tables))
    ELSE Answers(JsonBodies(tables))

-----------------------------------------------------------------------------
(* The script run: the three loads and the banner *)

NotLoaded ==
    /\ calls = << >>
    /\ geojson = EmptyBody /\ geo_source = NoLabel
    /\ closed_df_raw = EmptyFrame /\ closed_source = NoLabel
    /\ pop_df_raw = EmptyFrame /\ pop_source = NoLabel
    /\ warning = FALSE

NotDerived ==
    /\ date_df = NoRecords /\ filtered = NoRecords /\ filtered_day = -1
    /\ ext_long = NoRecords /\ ext_day = -1 /\ ext_smooth = NoRecords
    /\ closed_long = NoRecords /\ closed_day = -1

\* the widgets' default values
\* the range of the year slider: year_min = 2000, year_max = TODAY.year
year_min == 2000
year_max(today) == YearOf(today)

DefaultWidgets == smooth_win = 1 /\ unit_choice = "index"

Init ==
    /\ pc = "load_geo"
    /\ env \in [SEOUL_GEOJSON_URL : {UrlUnset, UrlApi},
                DATA_GO_CLOSED_SCHOOL_URL : Urls,
                KEIS_CLOSED_SCHOOL_URL : Urls,
                DATA_GO_POP_URL : Urls \cup {UrlCsvUpper}]
    /\ now = 0
    /\ TODAY = SeoulDate(now)
    /\ raised = "none"
    /\ NotLoaded /\ NotDerived /\ DefaultWidgets

Return(f, next_pc) ==
    /\ calls' = calls \o f.calls
    /\ raised' = f.raised
    /\ pc' = IF f.raised = "none" THEN next_pc ELSE "stopped"

LoadGeo ==
    /\ pc = "load_geo"
    /\ \E r1 \in ResponsesFor(env.SEOUL_GEOJSON_URL, TRUE, {}), r2 \in Answers(GeoBodies) :
          LET f == fetch_seoul_geojson(env.SEOUL_GEOJSON_URL, r1, r2)
          IN /\ geojson' = f.val
             /\ geo_source' = f.label
             /\ Return(f, "load_closed")
    /\ UNCHANGED <<env, now, TODAY, closed_df_raw, closed_source, pop_df_raw, pop_source,
                   warning, derived>>

LoadClosed ==
    /\ pc = "load_closed"
    /\ \E r1 \in ResponsesFor(env.DATA_GO_CLOSED_SCHOOL_URL, TRUE, ClosedTables),
          r2 \in ResponsesFor(env.KEIS_CLOSED_SCHOOL_URL, FALSE, ClosedTables) :
          LET f == fetch_closed_schools(env.DATA_GO_CLOSED_SCHOOL_URL,
                                        env.KEIS_CLOSED_SCHOOL_URL, r1, r2)
          IN /\ closed_df_raw' = f.val
             /\ closed_source' = f.label
             /\ Return(f, "load_pop")
    /\ UNCHANGED <<env, now, TODAY, geojson, geo_source, pop_df_raw, pop_source,
                   warning, derived>>

LoadPop ==
    /\ pc = "load_pop"
    /\ \E r1 \in ResponsesFor(env.DATA_GO_POP_URL, TRUE, PopTables) :
          LET f == fetch_population_components(env.DATA_GO_POP_URL, r1, TODAY)
          IN /\ pop_df_raw' = f.val
             /\ pop_source' = f.label
             /\ Return(f, "banner")
    /\ UNCHANGED <<env, now, TODAY, geojson, geo_source, closed_df_raw, closed_source,
                   warning, derived>>

Banner ==
    /\ pc = "banner"
    /\ warning' = banner_shown(geo_source, closed_source, pop_source)
    /\ pc' = "loaded"
    /\ UNCHANGED <<env, now, TODAY, calls, raised, geojson, geo_source, closed_df_raw,
                   closed_source, pop_df_raw, pop_source, derived>>

Next == LoadGeo \/ LoadClosed \/ LoadPop \/ Banner

Spec == Init /\ [][Next]_vars

-----------------------------------------------------------------------------
(* The script run after the loads: index, unit and smoothing, aggregation *)

MaxRows == 2
MaxSeries == 4
MaxDateRows == 2

\* all sequences over S of length at most n
SeqsUpTo(S, n) == UNION {[1..k -> S] : k \in 0..n}

Y0 == EpochYear
Junggu == StrCell(<<"#jung", "#gu">>)
Junk == StrCell(<<"n", "/", "a">>)

Tick ==
    /\ now < MaxDay * HoursPerDay
    /\ now' = now + 1
    /\ UNCHANGED <<pc, env, TODAY, raised, loaded, derived>>

\* a direct call remove_future_rows(date_df)
CallRemoveFutureRows ==
    /\ pc = "filter"
    /\ filtered' = remove_future_rows(date_df, "date", now)
    /\ filtered_day' = SeoulDate(now)
    /\ UNCHANGED <<pc, env, now, TODAY, raised, loaded, date_df, smooth_win, unit_choice,
                   ext_long, ext_day, ext_smooth, closed_long, closed_day>>

\* ext_long = compute_extinction_index(pop_df_raw)
IndexStep ==
    /\ pc = "index"
    /\ LET c == compute_extinction_index(pop_df_raw, now)
       IN /\ raised' = c.exc
          /\ pc' = IF c.exc = "none" THEN "smooth" ELSE "stopped"
          /\ ext_long' = c.out
          /\ ext_day' = IF c.exc = "none" THEN SeoulDate(now) ELSE ext_day
    /\ UNCHANGED <<env, now, TODAY, loaded, date_df, filtered, filtered_day, smooth_win,
                   unit_choice, ext_smooth, closed_long, closed_day>>

\* the unit conversion and the smoothing of ext_long
SmoothStep ==
    /\ pc = "smooth"
    /\ ext_smooth' = smooth_ext_long(ext_long, unit_choice, smooth_win)
    /\ pc' = "tabs"
    /\ UNCHANGED <<env, now, TODAY, raised, loaded, date_df, filtered, filtered_day,
                   smooth_win, unit_choice, ext_long, ext_day, closed_long, closed_day>>

\* raw_closed, closed_long = build_closed_agg(closed_df_raw)
ClosedAggStep ==
    /\ pc = "tabs"
    /\ LET b == build_closed_agg(closed_df_raw, now)
       IN /\ raised' = b.exc
          /\ pc' = IF b.exc = "none" THEN "done" ELSE "stopped"
          /\ closed_long' = b.agg
          /\ closed_day' = IF b.exc = "none" THEN SeoulDate(now) ELSE closed_day
    /\ UNCHANGED <<env, now, TODAY, loaded, date_df, filtered, filtered_day, smooth_win,
                   unit_choice, ext_long, ext_day, ext_smooth>>

NoEnv ==
    env = [SEOUL_GEOJSON_URL |-> UrlUnset, DATA_GO_CLOSED_SCHOOL_URL |-> UrlUnset,
           KEIS_CLOSED_SCHOOL_URL |-> UrlUnset, DATA_GO_POP_URL |-> UrlUnset]

\* the loads are over; the raw tables are whatever the sources gave
Loaded(pop, closed) ==
    /\ NoEnv /\ raised = "none" /\ calls = << >> /\ warning = FALSE
    /\ geojson = PlaceholderGeojson /\ geo_source = L_PLACEHOLDER
    /\ pop_df_raw = pop /\ pop_source = L_DATA_GO
    /\ closed_df_raw = closed /\ closed_source = L_DATA_GO

PopRow(y, g, f, a) == <<y, g, f, a>>
OnePop == DataFrame(PopCols, <<PopRow(IntCell(Y0), Jongno, IntCell(1), IntCell(2))>>)
OneClosed == DataFrame(<<C_JACHIGU, C_CLOSEDYEAR>>, << <<Jongno, IntCell(Y0 - 1)>> >>)

(* Temporal filter: timestamps around the Seoul midnights, naive or UTC,    *)
(* and a run of the script over a table with a row per year.                *)

DateCells(aware) ==
    {Timestamp(w, aware, 0) : w \in (IF aware THEN {14, 15, 16} ELSE {23, 24, 25})}
        \cup {NaT}
DateFrames ==
    {Frame({"date", "value"}, [i \in 1..Len(q) |-> [date |-> q[i], value |-> Num(i, 1)]]) :
        q \in SeqsUpTo(DateCells(TRUE), MaxDateRows) \cup SeqsUpTo(DateCells(FALSE), MaxDateRows)}
        \cup {Frame({"value"}, <<[value |-> Num(1, 1)]>>)}

YearsPop ==
    DataFrame(PopCols, [i \in 1..4 |-> PopRow(IntCell(Y0 - 2 + i), Jongno, IntCell(1), IntCell(2))])
YearsClosed ==
    DataFrame(<<C_JACHIGU, C_CLOSEDYEAR>>, [i \in 1..4 |-> <<Jongno, IntCell(Y0 - 2 + i)>>])

InitFilter ==
    /\ now = 0 /\ TODAY = SeoulDate(now)
    /\ filtered = NoRecords /\ filtered_day = -1
    /\ ext_long = NoRecords /\ ext_day = -1 /\ ext_smooth = NoRecords
    /\ closed_long = NoRecords /\ closed_day = -1
    /\ DefaultWidgets
    /\ \/ /\ pc = "filter"
          /\ date_df \in DateFrames
          /\ Loaded(OnePop, OneClosed)
       \/ /\ pc = "index"
          /\ date_df = NoRecords
          /\ Loaded(YearsPop, YearsClosed)

NextFilter == Tick \/ CallRemoveFutureRows \/ IndexStep \/ SmoothStep \/ ClosedAggStep

SpecFilter == InitFilter /\ [][NextFilter]_vars

(* Schema normalisation: raw tables with zero denominators, unparsable     *)
(* cells, repeated (year, district) rows and unexpected headers.            *)

RatioRows ==
    {PopRow(IntCell(y), g, IntCell(f), IntCell(a)) :
        y \in {Y0, Y0 + 1}, g \in {Jongno, Junggu}, f \in {-1, 0, 2}, a \in {0, 4}}
JunkRows ==
    {PopRow(y, g, f, a) :
        y \in {IntCell(Y0), Junk, NA}, g \in {Jongno, NA},
        f \in {IntCell(2), Junk}, a \in {IntCell(4), NA}}

C_YEAR_EN == <<"Y", "e", "a", "r">>
C_DISTRICT_EN == <<"D", "i", "s", "t", "r", "i", "c", "t">>
C_F2039_EN == <<"f", "2", "0", "_", "3", "9">>
C_AGED_EN == <<"a", "g", "e", "d", "6", "5">>
C_BASEYEAR == <<"#gi", "#jun", "#nyeon">>

PopHeaders ==
    { <<C_YEAR_EN, C_DISTRICT_EN, C_F2039_EN, C_AGED_EN>>,
      <<C_YEONDO, C_JACHIGU, C_F2039, C_TOTAL>>,
      <<C_BASEYEAR, C_JACHIGU, C_F2039, C_65>>,
      <<C_65, C_F2039, C_JACHIGU, C_YEONDO>> }

PopRawTables ==
    {DataFrame(PopCols, rows) : rows \in SeqsUpTo(RatioRows, MaxRows) \cup SeqsUpTo(JunkRows, MaxRows)}
        \cup {DataFrame(h, <<PopRow(IntCell(Y0), Jongno, IntCell(1), IntCell(2))>>) : h \in PopHeaders}

ClosedRows ==
    {<<g, y>> : g \in {Jongno, Junggu, NA}, y \in {IntCell(Y0 - 1), IntCell(Y0 + 1), Junk, NA}}
ClosedRawTables ==
    {DataFrame(h, rows) : h \in {<<C_JACHIGU, C_CLOSEDYEAR>>, <<W_GU, W_NYEONDO>>},
                          rows \in SeqsUpTo(ClosedRows, MaxRows)}
        \cup {DataFrame(<<C_SCHOOL, C_CLOSEDYEAR>>, << <<Jongno, IntCell(Y0 - 1)>> >>)}

\* 09:00 Seoul time on January 1 of the year after Y0
NewYearMorning == DaysPerYear * HoursPerDay

InitIndex ==
    /\ pc = "index"
    /\ now \in {NewYearMorning, NewYearMorning + HoursPerDay}
    /\ TODAY = SeoulDate(now)
    /\ NotDerived
    /\ unit_choice = "index"
    /\ \/ /\ smooth_win \in {1, 3}
          /\ \E pop \in PopRawTables : Loaded(pop, OneClosed)
       \/ /\ smooth_win = 1
          /\ \E closed \in ClosedRawTables : Loaded(OnePop, closed)

NextScript == IndexStep \/ SmoothStep \/ ClosedAggStep

SpecIndex == InitIndex /\ [][NextScript]_vars

(* Smoothing: series of valid rows in two districts, every window and unit *)

SeriesRows ==
    {PopRow(IntCell(yf[1]), g, IntCell(yf[2]), IntCell(2)) :
        yf \in {<<Y0, 1>>, <<Y0, 3>>, <<Y0 + 1, 3>>}, g \in {Jongno, Junggu}}
SeriesTables == {DataFrame(PopCols, rows) : rows \in SeqsUpTo(SeriesRows, MaxSeries)}

InitSmooth ==
    /\ pc = "index"
    /\ now = NewYearMorning + HoursPerDay
    /\ TODAY = SeoulDate(now)
    /\ NotDerived
    /\ smooth_win \in {1, 3, 5}
    /\ unit_choice \in {"index", "ratio"}
    /\ \E pop \in SeriesTables : Loaded(pop, OneClosed)

SpecSmooth == InitSmooth /\ [][NextScript]_vars

-----------------------------------------------------------------------------
(* Claims about source resolution and the banner *)

GeoSources == {"SEOUL_GEOJSON_URL", "GitHub"}
ClosedSources == {"DATA_GO_CLOSED_SCHOOL_URL", "KEIS_CLOSED_SCHOOL_URL"}
PopSources == {"DATA_GO_POP_URL"}

CallsTo(sources) == SelectSeq(calls, LAMBDA c : c.src \in sources)
NoneSucceeded(sources) == \A i \in 1..Len(calls) : calls[i].src \in sources => ~calls[i].ok

GeoLoaded == pc \in {"load_closed", "load_pop", "banner", "loaded"}
ClosedLoaded == pc \in {"load_pop", "banner", "loaded"}
PopLoaded == pc \in {"banner", "loaded"}

OfficialLabels == {L_DATA_GO, L_KEIS}

\* an exception left one of the three loads and ended the run
LoadRaised == pc = "stopped" /\ pop_source = NoLabel

\* C1: whatever is unset and however the reads fail, no load raises, each
\* load returns a labelled result, and a dataset none of whose real sources
\* answered carries the built-in example label (and the example data).
C1_Totality ==
    /\ ~LoadRaised
    /\ GeoLoaded =>
         /\ geo_source \in {L_DATA_GO, L_GITHUB, L_PLACEHOLDER}
         /\ NoneSucceeded(GeoSources) =>
              geo_source = L_PLACEHOLDER /\ geojson = PlaceholderGeojson
    /\ ClosedLoaded =>
         /\ closed_source \in {L_DATA_GO, L_KEIS, L_EXAMPLE}
         /\ NoneSucceeded(ClosedSources) =>
              closed_source = L_EXAMPLE /\ closed_df_raw = ExampleClosed
    /\ PopLoaded =>
         /\ pop_source \in {L_DATA_GO, L_EXAMPLE}
         /\ NoneSucceeded(PopSources) =>
              pop_source = L_EXAMPLE /\ pop_df_raw = synthetic_population(TODAY)

\* four reads were made and every one failed, and all three datasets are the
\* built-in ones
C1_Witness ==
    /\ pc = "loaded"
    /\ Len(calls) = 4
    /\ \A i \in 1..Len(calls) : ~calls[i].ok
    /\ geo_source = L_PLACEHOLDER /\ closed_source = L_EXAMPLE /\ pop_source = L_EXAMPLE

Rank(src) ==
    CASE src = "SEOUL_GEOJSON_URL" -> 1 [] src = "GitHub" -> 2
      [] src = "DATA_GO_CLOSED_SCHOOL_URL" -> 1 [] src = "KEIS_CLOSED_SCHOOL_URL" -> 2
      [] OTHER -> 1

LabelOf(src) ==
    CASE src \in {"SEOUL_GEOJSON_URL", "DATA_GO_CLOSED_SCHOOL_URL", "DATA_GO_POP_URL"} -> L_DATA_GO
      [] src = "KEIS_CLOSED_SCHOOL_URL" -> L_KEIS
      [] OTHER -> L_GITHUB

\* the reads of one dataset: in the fixed order, nothing after a success, and
\* the label is that of the read that succeeded, else the built-in one
InPriorityOrder(made, label, builtin) ==
    /\ \A i, j \in 1..Len(made) : i < j => Rank(made[i].src) < Rank(made[j].src)
    /\ \A i \in 1..Len(made) : made[i].ok => i = Len(made)
    /\ label = IF made # << >> /\ made[Len(made)].ok
               THEN LabelOf(made[Len(made)].src) ELSE builtin

\* a configured source is skipped only when an earlier one succeeded
Attempted(made, src, url) ==
    url # UrlUnset =>
        \/ \E i \in 1..Len(made) : made[i].src = src
        \/ \E i \in 1..Len(made) : made[i].ok /\ Rank(made[i].src) < Rank(src)

\* C2: the sources are read in the fixed order (data.go.kr, KEIS, built-in;
\* configured URL, GitHub, placeholder), a failed read falls through to the
\* next, nothing is read after a success, and the label returned is that of
\* the first read that succeeded.
C2_PriorityOrder ==
    /\ ~LoadRaised
    /\ GeoLoaded =>
         /\ InPriorityOrder(CallsTo(GeoSources), geo_source, L_PLACEHOLDER)
         /\ Attempted(CallsTo(GeoSources), "SEOUL_GEOJSON_URL", env.SEOUL_GEOJSON_URL)
         /\ Attempted(CallsTo(GeoSources), "GitHub", UrlApi)
    /\ ClosedLoaded =>
         /\ InPriorityOrder(CallsTo(ClosedSources), closed_source, L_EXAMPLE)
         /\ Attempted(CallsTo(ClosedSources), "DATA_GO_CLOSED_SCHOOL_URL",
                      env.DATA_GO_CLOSED_SCHOOL_URL)
         /\ Attempted(CallsTo(ClosedSources), "KEIS_CLOSED_SCHOOL_URL",
                      env.KEIS_CLOSED_SCHOOL_URL)

\* data.go.kr was read and failed, KEIS was read next and answered
C2_Witness ==
    /\ ClosedLoaded
    /\ Len(CallsTo(ClosedSources)) = 2
    /\ ~CallsTo(ClosedSources)[1].ok /\ CallsTo(ClosedSources)[2].ok
    /\ closed_source = L_KEIS

\* C10: the notice is shown exactly when some dataset's label is not an
\* official one (also for the unofficial GitHub fallback).
C10_NoticeUnlessOfficial ==
    pc = "loaded" =>
        (warning <=> {geo_source, closed_source, pop_source} \ OfficialLabels # {})

-----------------------------------------------------------------------------
(* Timestamps and raw rows as the claims read them *)

\* the Seoul wall clock of a timestamp: a naive one is taken as Seoul time
SeoulWallOf(ts) == IF ts.aware THEN ts.wall - ts.off + SeoulOffset ELSE ts.wall

\* the day number of <year>-01-01
NewYearsDay(y) == (y - EpochYear) * DaysPerYear

RowsWhere(df, P(_)) == {i \in 1..Len(df.rows) : P(df.rows[i])}

-----------------------------------------------------------------------------
(* Claims about schema normalisation, the ratio and uniqueness *)

IndexReturned == ext_day # -1
\* compute_extinction_index was called: it returned, or its exception ended
\* the run
IndexCalled ==
    \/ pc \in {"smooth", "tabs", "done"}
    \/ pc = "stopped" /\ pop_source # NoLabel
AggReturned == closed_day # -1
\* build_closed_agg was called: the run is over and the index step was passed
AggCalled == pc \in {"done", "stopped"} /\ IndexReturned

\* some required column of the population table matches none of the keywords
PopUnidentified ==
    \/ FirstCol(pop_df_raw, IsYearCol) = 0 \/ FirstCol(pop_df_raw, IsGuCol) = 0
    \/ FirstCol(pop_df_raw, IsF2039Col) = 0 \/ FirstCol(pop_df_raw, Is65Col) = 0

ClosedUnidentified ==
    \/ ~HasCol(closed_df_raw, C_JACHIGU) /\ FirstCol(closed_df_raw, IsAnyGuCol) = 0
    \/ ~HasCol(closed_df_raw, C_CLOSEDYEAR) /\ FirstCol(closed_df_raw, IsAnyYearCol) = 0

\* C5: when a required column cannot be identified by keyword,
\* compute_extinction_index and build_closed_agg fall back to the default
\* column names and return a result; they do not raise.
C5_DegradesToDefaults ==
    /\ (IndexCalled /\ PopUnidentified) => IndexReturned
    /\ (AggCalled /\ ClosedUnidentified) => AggReturned

\* the cells of a population row, by the default header
YearCell(row) == row[1]
GuCell(row) == row[2]
NumCell(row) == row[3]
DenCell(row) == row[4]

DefaultHeader == pop_df_raw.cols = PopCols

PopParsable(row) ==
    YearCell(row).k = "int" /\ NumCell(row).k = "int" /\ DenCell(row).k = "int"
\* a row that should yield a record on the day of the call
PopGood(row, day) ==
    /\ PopParsable(row) /\ GuCell(row).k = "str"
    /\ DenCell(row).n # 0
    /\ NewYearsDay(YearCell(row).n) < day

\* the records r with the district, year and ratio of raw row `row`
IsRecordOf(r, row) ==
    /\ r.group = GuCell(row).s
    /\ SeoulWallOf(r.date) = NewYearsDay(YearCell(row).n) * HoursPerDay
    /\ IsNum(r.value)
    /\ r.value.p * DenCell(row).n = 100 * NumCell(row).n * r.value.q

\* as many records per (district, year, ratio) as good raw rows with them
RecordsMatchGoodRows(day) ==
    /\ Len(ext_long.rows) = Cardinality(RowsWhere(pop_df_raw, LAMBDA row : PopGood(row, day)))
    /\ \A i \in 1..Len(pop_df_raw.rows) :
          PopGood(pop_df_raw.rows[i], day) =>
              Cardinality({k \in 1..Len(ext_long.rows) :
                              IsRecordOf(ext_long.rows[k], pop_df_raw.rows[i])})
                = Cardinality({j \in 1..Len(pop_df_raw.rows) :
                                  /\ PopGood(pop_df_raw.rows[j], day)
                                  /\ GuCell(pop_df_raw.rows[j]) = GuCell(pop_df_raw.rows[i])
                                  /\ YearCell(pop_df_raw.rows[j]) = YearCell(pop_df_raw.rows[i])
                                  /\ NumCell(pop_df_raw.rows[j]).n * DenCell(pop_df_raw.rows[i]).n
                                       = NumCell(pop_df_raw.rows[i]).n * DenCell(pop_df_raw.rows[j]).n})

ClosedGood(row, day) ==
    row[1].k = "str" /\ row[2].k = "int" /\ NewYearsDay(row[2].n) < day

\* closed_long has the record of the district and closure year of `row`,
\* counting the good raw rows with that district and year
HasClosedRecord(row, day) ==
    \E k \in 1..Len(closed_long.rows) :
        /\ closed_long.rows[k].group = row[1].s
        /\ SeoulWallOf(closed_long.rows[k].date) = NewYearsDay(row[2].n) * HoursPerDay
        /\ closed_long.rows[k].value
              = Num(Cardinality({j \in 1..Len(closed_df_raw.rows) :
                                    /\ ClosedGood(closed_df_raw.rows[j], day)
                                    /\ closed_df_raw.rows[j][1] = row[1]
                                    /\ closed_df_raw.rows[j][2] = row[2]}), 1)

\* C6: a row whose year, numerator or denominator (or closure year) cannot be
\* parsed is dropped, every other row yields its record, and no exception
\* ends the run.
C6_RowLocalRecovery ==
    /\ (IndexCalled /\ DefaultHeader) =>
          IndexReturned /\ RecordsMatchGoodRows(SeoulDate(now))
    /\ (AggCalled /\ ~ClosedUnidentified) =>
          /\ AggReturned
          /\ \A i \in 1..Len(closed_df_raw.rows) :
                ClosedGood(closed_df_raw.rows[i], SeoulDate(now)) =>
                    HasClosedRecord(closed_df_raw.rows[i], SeoulDate(now))

AllYearsParse == \A i \in 1..Len(pop_df_raw.rows) : YearCell(pop_df_raw.rows[i]).k = "int"

\* the records of one district among the good raw rows, and their mean
GoodOf(g, day) ==
    {i \in 1..Len(pop_df_raw.rows) :
        PopGood(pop_df_raw.rows[i], day) /\ GuCell(pop_df_raw.rows[i]).s = g}

RECURSIVE SumRatios(_)
SumRatios(I) ==
    IF I = {} THEN Num(0, 1)
    ELSE LET i == CHOOSE x \in I : TRUE
             row == pop_df_raw.rows[i]
         IN float_add(SumRatios(I \ {i}), Num(100 * NumCell(row).n, DenCell(row).n))

\* the fewest records a trailing window must hold for a smoothed value
MinPeriods == IF smooth_win \div 2 > 1 THEN smooth_win \div 2 ELSE 1

\* C7: a row with denominator 0 has no index, whatever its numerator: nothing
\* raises, no record of it is in ext_long (no NaN, no infinity, no 0 put in
\* its place), and it is in no smoothed value (a window of enough records
\* has the mean of the ratios of the other rows); the other rows yield their
\* records, n/d * 100.
C7_ZeroDenominator ==
    (DefaultHeader /\ AllYearsParse /\ IndexCalled) =>
        /\ IndexReturned
        /\ \A k \in 1..Len(ext_long.rows) : IsNum(ext_long.rows[k].value)
        /\ RecordsMatchGoodRows(ext_day)
        /\ pc \in {"tabs", "done"} =>
              /\ Len(ext_smooth.rows) = Len(ext_long.rows)
              /\ \A k \in 1..Len(ext_smooth.rows) :
                    LET g == ext_smooth.rows[k].group
                        I == GoodOf(g, ext_day)
                        last == \A j \in (k + 1)..Len(ext_smooth.rows) :
                                    ext_smooth.rows[j].group # g
                        pos == Cardinality({j \in 1..k : ext_smooth.rows[j].group = g})
                    IN /\ (smooth_win <= 1 \/ pos >= MinPeriods) =>
                             IsNum(ext_smooth.rows[k].value)
                       /\ (/\ last /\ smooth_win > 1
                           /\ Cardinality(I) <= smooth_win
                           /\ Cardinality(I) >= MinPeriods) =>
                             ext_smooth.rows[k].value
                                = float_scale(SumRatios(I), 1,
                                     Cardinality(I) * (IF unit_choice = "ratio" THEN 100 ELSE 1))

\* a row 2/0 beside a row -1/4 of the same district: one record, -25, and
\* with window 3 its smoothed value is -25 too
C7_Witness ==
    /\ pc = "done" /\ smooth_win = 3
    /\ Len(pop_df_raw.rows) = 2
    /\ NumCell(pop_df_raw.rows[1]) = IntCell(2) /\ DenCell(pop_df_raw.rows[1]) = IntCell(0)
    /\ NumCell(pop_df_raw.rows[2]) = IntCell(-1) /\ DenCell(pop_df_raw.rows[2]) = IntCell(4)
    /\ Len(ext_long.rows) = 1
    /\ ext_smooth.rows[1].value = Num(-25, 1)

\* C8: no two records of ext_long share (date, group, metric), and no two
\* records of closed_long share (date, group).
C8_UniqueKeys ==
    /\ \A i, j \in 1..Len(ext_long.rows) :
          (/\ ext_long.rows[i].date = ext_long.rows[j].date
           /\ ext_long.rows[i].group = ext_long.rows[j].group
           /\ ext_long.rows[i].metric = ext_long.rows[j].metric) => i = j
    /\ \A i, j \in 1..Len(closed_long.rows) :
          (/\ closed_long.rows[i].date = closed_long.rows[j].date
           /\ closed_long.rows[i].group = closed_long.rows[j].group) => i = j

\* C4: remove_future_rows keeps exactly the records whose timestamp, read on
\* the Seoul clock, is strictly before 00:00 of the Seoul day of the call; so
\* the records of compute_extinction_index and build_closed_agg are all
\* before that midnight, and none before it is missing.
C4_TemporalFilter ==
    /\ (filtered_day # -1 /\ "date" \in date_df.cols) =>
         LET Past(r) == ~r.date.nat /\ SeoulWallOf(r.date) < filtered_day * HoursPerDay
             kept == RowsWhere(date_df, Past)
         IN /\ Len(filtered.rows) = Cardinality(kept)
            /\ {filtered.rows[k].value : k \in 1..Len(filtered.rows)}
                  = {date_df.rows[i].value : i \in kept}
            /\ \A k \in 1..Len(filtered.rows) : Past(filtered.rows[k])
    /\ (filtered_day # -1 /\ "date" \notin date_df.cols) => filtered = date_df
    /\ ext_day # -1 =>
         /\ \A k \in 1..Len(ext_long.rows) :
               SeoulWallOf(ext_long.rows[k].date) < ext_day * HoursPerDay
         /\ DefaultHeader =>
               Len(ext_long.rows)
                  = Cardinality(RowsWhere(pop_df_raw, LAMBDA row : PopGood(row, ext_day)))
    /\ closed_day # -1 =>
         /\ \A k \in 1..Len(closed_long.rows) :
               SeoulWallOf(closed_long.rows[k].date) < closed_day * HoursPerDay
         /\ \A i \in 1..Len(closed_df_raw.rows) :
               ClosedGood(closed_df_raw.rows[i], closed_day) =>
                   HasClosedRecord(closed_df_raw.rows[i], closed_day)

\* a call on the second day: of a naive 23:00 and a UTC 15:00 (Seoul 24:00)
\* of the first day, the first is kept and the second, at the cutoff, removed
C4_Witness ==
    /\ filtered_day = 1
    /\ Len(date_df.rows) = 2 /\ Len(filtered.rows) = 1
    /\ \E i \in 1..2 : date_df.rows[i].date = Timestamp(15, TRUE, 0)
    /\ \E i \in 1..2 : date_df.rows[i].date = Timestamp(14, TRUE, 0)

-----------------------------------------------------------------------------
(* Claims about empty and shape-invalid payloads *)

\* C3: a payload with no rows (also none left after the Seoul filter) or
\* without the required columns counts as a failed read, so a table returned
\* under an official label has rows and its required columns.
C3_EmptyFallsThrough ==
    /\ (ClosedLoaded /\ closed_source \in OfficialLabels) =>
          closed_df_raw.rows # << >> /\ ~ClosedUnidentified
    /\ (PopLoaded /\ pop_source \in OfficialLabels) =>
          pop_df_raw.rows # << >> /\ ~PopUnidentified

-----------------------------------------------------------------------------
(* Claims about smoothing *)

Smoothed == pc \in {"tabs", "done"} /\ IndexReturned

\* the value of record k of ext_long in the chosen unit
UnitValue(k) ==
    IF unit_choice = "ratio" THEN float_scale(ext_long.rows[k].value, 1, 100)
    ELSE ext_long.rows[k].value

\* the records of the group of record k within its trailing window: the last
\* smooth_win records of that group up to k
SameGroupUpTo(k) ==
    {j \in 1..k : ext_long.rows[j].group = ext_long.rows[k].group}
TrailingWindow(k) ==
    {j \in SameGroupUpTo(k) :
        Cardinality({i \in SameGroupUpTo(k) : i > j}) < smooth_win}

RECURSIVE SumValues(_)
SumValues(K) ==
    IF K = {} THEN Num(0, 1)
    ELSE LET k == CHOOSE x \in K : TRUE
         IN float_add(SumValues(K \ {k}), UnitValue(k))

WindowMean(k) == float_scale(SumValues(TrailingWindow(k)), 1, Cardinality(TrailingWindow(k)))

SameRecord(k) ==
    /\ ext_smooth.rows[k].date = ext_long.rows[k].date
    /\ ext_smooth.rows[k].group = ext_long.rows[k].group
    /\ ext_smooth.rows[k].metric = ext_long.rows[k].metric

\* C9 as stated: for each window 1, 3, 5 every record of every group, the
\* first ones included, has a defined smoothed value, the mean of the values
\* of its group in its trailing window.
C9_NoGapAtStart ==
    Smoothed =>
        /\ Len(ext_smooth.rows) = Len(ext_long.rows)
        /\ \A k \in 1..Len(ext_smooth.rows) :
              /\ SameRecord(k)
              /\ IsNum(ext_smooth.rows[k].value)
              /\ ext_smooth.rows[k].value = WindowMean(k)

\* C9 amended: a record has a smoothed value, the mean of the values of its
\* group in its trailing window, exactly when that window holds at least
\* max(1, window // 2) records; otherwise its smoothed value is undefined.
\* So windows 1 and 3 leave no gap, and window 5 leaves the first record of
\* each group without a value.
C9_GapBelowMinPeriods ==
    Smoothed =>
        /\ Len(ext_smooth.rows) = Len(ext_long.rows)
        /\ \A k \in 1..Len(ext_smooth.rows) :
              /\ SameRecord(k)
              /\ IF smooth_win <= 1 \/ Cardinality(TrailingWindow(k)) >= MinPeriods
                 THEN ext_smooth.rows[k].value = WindowMean(k)
                 ELSE IsNaN(ext_smooth.rows[k].value)
              /\ smooth_win \in {1, 3} => IsNum(ext_smooth.rows[k].value)
              /\ (smooth_win = 5 /\ Cardinality(SameGroupUpTo(k)) = 1) =>
                    IsNaN(ext_smooth.rows[k].value)

\* window 5 over a group of two records, 50 and 150: the first has no value,
\* the second has their mean
C9_Witness ==
    /\ Smoothed /\ smooth_win = 5 /\ unit_choice = "index"
    /\ Len(ext_long.rows) = 2
    /\ ext_long.rows[1].group = ext_long.rows[2].group
    /\ ext_long.rows[1].value = Num(50, 1) /\ ext_long.rows[2].value = Num(150, 1)
    /\ IsNaN(ext_smooth.rows[1].value)
    /\ ext_smooth.rows[2].value = Num(100, 1)

-----------------------------------------------------------------------------
(* Claims about the synthetic population table *)

SyntheticRan == PopLoaded /\ pop_source = L_EXAMPLE

\* the synthetic table has the four columns the index needs, every year and
\* district is filled in and every denominator is a non-zero number
StructurallyValid(df) ==
    /\ FirstCol(df, IsYearCol) # 0 /\ FirstCol(df, IsGuCol) # 0
    /\ FirstCol(df, IsF2039Col) # 0 /\ FirstCol(df, Is65Col) # 0
    /\ \A i \in 1..Len(df.rows) :
          /\ df.rows[i][FirstCol(df, IsYearCol)].k = "int"
          /\ df.rows[i][FirstCol(df, IsGuCol)].k = "str"
          /\ df.rows[i][FirstCol(df, IsF2039Col)].k = "int"
          /\ df.rows[i][FirstCol(df, Is65Col)].k = "int"
          /\ df.rows[i][FirstCol(df, Is65Col)].n # 0

HasRowFor(df, y, g) ==
    \E i \in 1..Len(df.rows) :
        /\ df.rows[i][FirstCol(df, IsYearCol)] = IntCell(y)
        /\ df.rows[i][FirstCol(df, IsGuCol)] = StrCell(g)

\* C11: when the synthetic generator ran, its table is structurally valid
\* and has a row for each of the 25 districts in every year the slider
\* offers, 2000 up to the current year.
C11_SyntheticCoverage ==
    SyntheticRan =>
        /\ StructurallyValid(pop_df_raw)
        /\ Len(gus) = 25
        /\ \A y \in year_min..year_max(TODAY) :
              \A k \in 1..Len(gus) : HasRowFor(pop_df_raw, y, gus[k])

-----------------------------------------------------------------------------
(* Claims about smoothing with window 1 *)

\* the values of the records of group g in ext_long, in the chosen unit and
\* in the order of ext_long
ValuesOf(g) ==
    LET idx == SelectSeq([k \in 1..Len(ext_long.rows) |-> k],
                         LAMBDA k : ext_long.rows[k].group = g)
    IN [i \in 1..Len(idx) |-> UnitValue(idx[i])]

GroupsOf(frame) == {frame.rows[k].group : k \in 1..Len(frame.rows)}

\* C12: with window 1 smoothing changes nothing: moving_average returns the
\* series it was given (also one with an undefined value in it), and the
\* smoothing step leaves the records of ext_long as they were, same records,
\* same values, same order.
C12_WindowOneIdentity ==
    IndexReturned =>
        /\ \A g \in GroupsOf(ext_long) :
              /\ moving_average(ValuesOf(g), 1) = ValuesOf(g)
              /\ moving_average(<<NaN>> \o ValuesOf(g), 1) = <<NaN>> \o ValuesOf(g)
        /\ (Smoothed /\ smooth_win = 1) =>
              /\ ext_smooth.cols = ext_long.cols
              /\ Len(ext_smooth.rows) = Len(ext_long.rows)
              /\ \A k \in 1..Len(ext_smooth.rows) :
                    SameRecord(k) /\ ext_smooth.rows[k].value = UnitValue(k)
              /\ unit_choice = "index" => ext_smooth = ext_long

\* window 1 over a group of two records, 50 and 150: both keep their value
C12_Witness ==
    /\ Smoothed /\ smooth_win = 1 /\ unit_choice = "index"
    /\ Len(ext_long.rows) = 2
    /\ ext_long.rows[1].group = ext_long.rows[2].group
    /\ ext_smooth.rows[1].value = Num(50, 1)
    /\ ext_smooth.rows[2].value = Num(150, 1)

-----------------------------------------------------------------------------
(* Claims about the aggregation of closures *)

RECURSIVE SumClosed(_)
SumClosed(k) == IF k = 0 THEN 0 ELSE SumClosed(k - 1) + closed_long.rows[k].value.p

\* record k of closed_long is that of some raw row with both fields and a
\* year that is not in the future
FromGoodRow(k, day) ==
    \E i \in 1..Len(closed_df_raw.rows) :
        /\ ClosedGood(closed_df_raw.rows[i], day)
        /\ closed_long.rows[k].group = closed_df_raw.rows[i][1].s
        /\ SeoulWallOf(closed_long.rows[k].date)
              = NewYearsDay(closed_df_raw.rows[i][2].n) * HoursPerDay

\* C13: for a raw table whose district and closure-year columns are found,
\* build_closed_agg returns, for each (district, closure year) whose January 1
\* is before today, one record whose value is the number of raw rows with that
\* district and year; a row without district or year is counted nowhere, and
\* the values add up to the number of raw rows with both fields and a year
\* that is not in the future.
C13_AggregationConserves ==
    (AggCalled /\ ~ClosedUnidentified) =>
        /\ AggReturned
        /\ \A i \in 1..Len(closed_df_raw.rows) :
              ClosedGood(closed_df_raw.rows[i], closed_day) =>
                  HasClosedRecord(closed_df_raw.rows[i], closed_day)
        /\ \A k \in 1..Len(closed_long.rows) :
              /\ FromGoodRow(k, closed_day)
              /\ closed_long.rows[k].value.k = "num" /\ closed_long.rows[k].value.q = 1
              /\ \A j \in 1..Len(closed_long.rows) :
                    (/\ closed_long.rows[j].group = closed_long.rows[k].group
                     /\ closed_long.rows[j].date = closed_long.rows[k].date) => j = k
        /\ SumClosed(Len(closed_long.rows))
              = Cardinality(RowsWhere(closed_df_raw,
                                      LAMBDA row : ClosedGood(row, closed_day)))

\* two raw rows with the same district and year: one record, of value 2
C13_Witness ==
    /\ AggReturned
    /\ Len(closed_df_raw.rows) = 2
    /\ closed_df_raw.rows[1] = closed_df_raw.rows[2]
    /\ Len(closed_long.rows) = 1
    /\ closed_long.rows[1].value = Num(2, 1)

=============================================================================
